---- MODULE Spec2Model ----
(***************************************************************************)
(* The in-memory betting store of friend-bets (src/src/lib/betStore.ts):   *)
(* the bet lifecycle, the settlement arithmetic and the IOU ledger, and    *)
(* the handlers of the bet page (src/unnamed/part_000) that drive them.    *)
(***************************************************************************)
EXTENDS Integers, Sequences, FiniteSets, TLC

(***************************************************************************)
(* JavaScript numbers.  LedgerEntry.amount is a JS number, an IEEE-754     *)
(* double; resolveBet divides.  A double is modelled exactly: sign, the    *)
(* exponent e of its leading bit, and its significant bits m (first and    *)
(* last bit 1, at most MantissaBits of them), with value                   *)
(*   (-1)^neg * SUM_i m[i] * 2^(e - i + 1).                                *)
(* Zero is the empty bit string.  Subnormals, infinities and NaN do not    *)
(* arise from the small integers the model uses.                           *)
(***************************************************************************)
MantissaBits == 53

DZero == [neg |-> FALSE, e |-> 0, m |-> << >>]

RECURSIVE StripTrailing(_)
StripTrailing(bits) ==
    IF bits = << >> THEN << >>
    ELSE IF bits[Len(bits)] = 0 THEN StripTrailing(SubSeq(bits, 1, Len(bits) - 1))
    ELSE bits

RECURSIVE LeadingZeros(_)
LeadingZeros(bits) ==
    IF bits = << >> \/ bits[1] = 1 THEN 0
    ELSE 1 + LeadingZeros(Tail(bits))

\* a[1..i] + b[1..i] + carry c into position i; the result has i+1 bits
RECURSIVE AddFrom(_, _, _, _)
AddFrom(a, b, i, c) ==
    IF i = 0 THEN << c >>
    ELSE IF a[i] + b[i] + c >= 2
         THEN Append(AddFrom(a, b, i - 1, 1), a[i] + b[i] + c - 2)
         ELSE Append(AddFrom(a, b, i - 1, 0), a[i] + b[i] + c)

\* a[1..i] - b[1..i] - borrow c, for a >= b; the result has i bits
RECURSIVE SubFrom(_, _, _, _)
SubFrom(a, b, i, c) ==
    IF i = 0 THEN << >>
    ELSE IF a[i] - b[i] - c < 0
         THEN Append(SubFrom(a, b, i - 1, 1), a[i] - b[i] - c + 2)
         ELSE Append(SubFrom(a, b, i - 1, 0), a[i] - b[i] - c)

Zeros(n) == [i \in 1..n |-> 0]

\* round-to-nearest, ties-to-even, of the bit string `bits` (any length, no
\* leading 1 required) whose first bit has weight 2^top
DRound(neg, top, bits) ==
    LET lz   == LeadingZeros(bits)
        sig  == SubSeq(bits, lz + 1, Len(bits))
        e0   == top - lz
    IN  IF sig = << >> THEN DZero
        ELSE IF Len(sig) <= MantissaBits
             THEN [neg |-> neg, e |-> e0, m |-> StripTrailing(sig)]
        ELSE LET kept   == SubSeq(sig, 1, MantissaBits)
                 guard  == sig[MantissaBits + 1]
                 sticky == \E i \in (MantissaBits + 2)..Len(sig) : sig[i] = 1
                 up     == guard = 1 /\ (sticky \/ kept[MantissaBits] = 1)
                 inc    == AddFrom(kept, Zeros(MantissaBits), MantissaBits, 1)
             IN  IF ~up THEN [neg |-> neg, e |-> e0, m |-> StripTrailing(kept)]
                 ELSE IF inc[1] = 1
                      THEN [neg |-> neg, e |-> e0 + 1, m |-> << 1 >>]
                      ELSE [neg |-> neg, e |-> e0, m |-> StripTrailing(Tail(inc))]

RECURSIVE NatBits(_)
NatBits(n) == IF n = 0 THEN << >> ELSE Append(NatBits(n \div 2), n % 2)

\* the double of an integer (exact for the magnitudes used here)
DFromInt(n) ==
    LET a == IF n < 0 THEN -n ELSE n
        b == NatBits(a)
    IN  DRound(n < 0, Len(b) - 1, b)

DNeg(x) == IF x.m = << >> THEN x ELSE [x EXCEPT !.neg = ~x.neg]

\* the bits of |x| from weight 2^top down to weight 2^bot
DAlign(x, top, bot) ==
    Zeros(top - x.e) \o x.m \o Zeros((x.e - Len(x.m) + 1) - bot)

RECURSIVE BitsLess(_, _, _)
BitsLess(a, b, i) ==
    IF i > Len(a) THEN FALSE
    ELSE IF a[i] # b[i] THEN a[i] < b[i]
    ELSE BitsLess(a, b, i + 1)

\* x + y of JavaScript, correctly rounded
DAdd(x, y) ==
    IF x.m = << >> THEN y
    ELSE IF y.m = << >> THEN x
    ELSE LET top == IF x.e > y.e THEN x.e ELSE y.e
             bx  == x.e - Len(x.m) + 1
             by  == y.e - Len(y.m) + 1
             bot == IF bx < by THEN bx ELSE by
             a   == DAlign(x, top, bot)
             b   == DAlign(y, top, bot)
             n   == top - bot + 1
         IN  IF x.neg = y.neg
             THEN DRound(x.neg, top + 1, AddFrom(a, b, n, 0))
             ELSE IF a = b THEN DZero
             ELSE IF BitsLess(a, b, 1)
                  THEN DRound(y.neg, top, SubFrom(b, a, n, 0))
                  ELSE DRound(x.neg, top, SubFrom(a, b, n, 0))

\* the quotient bits of a / b for b <= a < 2b: `k` more bits after remainder r,
\* followed by a guard bit and a sticky bit
RECURSIVE QuotBits(_, _, _)
QuotBits(r, b, k) ==
    IF k = 0 THEN << IF 2 * r >= b THEN 1 ELSE 0,
                     IF 2 * r # b /\ r # 0 THEN 1 ELSE 0 >>
    ELSE IF 2 * r >= b THEN << 1 >> \o QuotBits(2 * r - b, b, k - 1)
    ELSE << 0 >> \o QuotBits(2 * r, b, k - 1)

RECURSIVE ScaleUp(_, _, _)
ScaleUp(a, b, e) == IF a >= b THEN << a, e >> ELSE ScaleUp(2 * a, b, e - 1)

RECURSIVE ScaleDown(_, _, _)
ScaleDown(a, b, e) == IF a < 2 * b THEN << b, e >> ELSE ScaleDown(a, 2 * b, e + 1)

\* n / d of JavaScript for integers n >= 0, d >= 1, correctly rounded
DDivInt(n, d) ==
    IF n = 0 THEN DZero
    ELSE LET up == ScaleUp(n, d, 0)
             dn == ScaleDown(up[1], d, up[2])
             a  == up[1]
             b  == dn[1]
         IN  DRound(FALSE, dn[2], << 1 >> \o QuotBits(a - b, b, MantissaBits - 1))

(***************************************************************************)
(* The store.  Ids come from generateId (random, treated as fresh): a bet  *)
(* or group is named by its position in creation order.  Timestamps        *)
(* (createdAt, acceptedAt) and the display texts of a bet are written but  *)
(* never read by a store operation and are left out.  Every user id that   *)
(* is passed belongs to a registered user.                                 *)
(***************************************************************************)
Users == {"alice", "bob"}
Creators == {"alice"}
Sides == {"A", "B"}
Statuses == {"draft", "pending", "locked", "awaiting_proof", "voting",
             "resolved", "void"}
Stakes == {3}
EventDates == {1}
Proofs == {"a photo", ""}

MaxBets == 1
MaxLedger == 4
MaxClock == 1

VARIABLES bets, ledger, groups, groupMembers, now, last

vars == << bets, ledger, groups, groupMembers, now, last >>

EmptyStore ==
    [bets |-> << >>, ledger |-> << >>, groups |-> << >>, groupMembers |-> << >>]

Store ==
    [bets |-> bets, ledger |-> ledger, groups |-> groups,
     groupMembers |-> groupMembers]

HasBet(S, betId) == betId \in 1..Len(S.bets)

HasGroup(S, groupId) == groupId \in 1..Len(S.groups)

Includes(seq, x) == \E i \in 1..Len(seq) : seq[i] = x

\* createGroup that forgets to enrol the creator
createGroupWithoutCreator(S, name, creatorId, inviteCode) ==
    [S EXCEPT !.groups = Append(@,
                  [name |-> name, creatorId |-> creatorId,
                   inviteCode |-> inviteCode, memberIds |-> << >>]),
              !.groupMembers = Append(@, {})]

\* inviteCode is what generateInviteCode returned for this call
createGroup(S, name, creatorId, inviteCode) ==
    [S EXCEPT !.groups = Append(@,
                  [name |-> name, creatorId |-> creatorId,
                   inviteCode |-> inviteCode, memberIds |-> << creatorId >>]),
              !.groupMembers = Append(@, {creatorId})]

\* Array.find: the first group carrying the code, 0 when there is none
findGroup(S, inviteCode) ==
    IF \E g \in 1..Len(S.groups) : S.groups[g].inviteCode = inviteCode
    THEN CHOOSE g \in 1..Len(S.groups) :
            /\ S.groups[g].inviteCode = inviteCode
            /\ \A h \in 1..(g - 1) : S.groups[h].inviteCode # inviteCode
    ELSE 0

\* joinGroupRejects without the test of the membership
joinGroupRejectsUnknownCode(S, inviteCode, userId) ==
    findGroup(S, inviteCode) = 0

\* the early return of joinGroup
joinGroupRejects(S, inviteCode, userId) ==
    \/ findGroup(S, inviteCode) = 0
    \/ Includes(S.groups[findGroup(S, inviteCode)].memberIds, userId)

joinGroup(S, inviteCode, userId) ==
    LET g == findGroup(S, inviteCode)
    IN  IF joinGroupRejects(S, inviteCode, userId) THEN S
        ELSE [S EXCEPT !.groups[g].memberIds = Append(@, userId),
                       !.groupMembers[g] = @ \cup {userId}]

\* what joinGroup returns: null, or the group
joinGroupReturn(S, inviteCode, userId) ==
    IF joinGroupRejects(S, inviteCode, userId) THEN "null" ELSE "group"

createBet(S, groupId, creatorId, stake, eventDate) ==
    [S EXCEPT !.bets = Append(@,
        [groupId |-> groupId, creatorId |-> creatorId, stake |-> stake,
         eventDate |-> eventDate, status |-> "draft",
         participants |-> << >>, winnerSide |-> "undefined"])]

\* isParticipant that looks at the first participant only
isParticipantFirst(bet, userId) ==
    Len(bet.participants) >= 1 /\ bet.participants[1].userId = userId

\* bet.participants.some(p => p.userId === userId)
isParticipant(bet, userId) ==
    \E i \in 1..Len(bet.participants) : bet.participants[i].userId = userId

\* acceptBetRejects without the test of the status
acceptBetRejectsAnyStatus(S, betId, userId) ==
    \/ ~HasBet(S, betId)
    \/ \E i \in 1..Len(S.bets[betId].participants) :
          S.bets[betId].participants[i].userId = userId

\* the two early returns of acceptBet
acceptBetRejects(S, betId, userId) ==
    \/ ~HasBet(S, betId)
    \/ S.bets[betId].status # "draft"
    \/ isParticipant(S.bets[betId], userId)

\* acceptBet that also rejects a side somebody already holds
acceptBetFreeSideOnly(S, betId, userId, side) ==
    IF \/ acceptBetRejects(S, betId, userId)
       \/ \E i \in 1..Len(S.bets[betId].participants) :
             S.bets[betId].participants[i].side = side
    THEN S
    ELSE LET ps == Append(S.bets[betId].participants,
                          [userId |-> userId, side |-> side])
         IN  [S EXCEPT !.bets[betId].participants = ps,
                       !.bets[betId].status =
                           IF Len(ps) = 2 THEN "locked" ELSE "pending"]

\* oppositeTaken is computed but never read: the side plays no part
acceptBet(S, betId, userId, side) ==
    IF acceptBetRejects(S, betId, userId) THEN S
    ELSE LET ps == Append(S.bets[betId].participants,
                          [userId |-> userId, side |-> side])
         IN  [S EXCEPT !.bets[betId].participants = ps,
                       !.bets[betId].status =
                           IF Len(ps) = 2 THEN "locked" ELSE "pending"]

\* acceptBetReturn that never returns null
acceptBetReturnAlwaysBet(S, betId, userId) == "bet"

\* what acceptBet returns: null, or the bet
acceptBetReturn(S, betId, userId) ==
    IF acceptBetRejects(S, betId, userId) THEN "null" ELSE "bet"

lockBet(S, betId) ==
    IF HasBet(S, betId) /\ S.bets[betId].status = "draft"
       /\ Len(S.bets[betId].participants) >= 2
    THEN [S EXCEPT !.bets[betId].status = "locked"]
    ELSE S

\* submitProof without the test of the status
submitProofAnyStatus(S, betId, userId, proof) ==
    IF HasBet(S, betId)
    THEN [S EXCEPT !.bets[betId].status = "voting"]
    ELSE S

\* the proof is not kept: the method only moves the status
submitProof(S, betId, userId, proof) ==
    IF HasBet(S, betId) /\ S.bets[betId].status = "awaiting_proof"
    THEN [S EXCEPT !.bets[betId].status = "voting"]
    ELSE S

\* addLedgerEntry that puts the entry in front
addLedgerEntryFirst(S, userId, betId, amount) ==
    [S EXCEPT !.ledger =
        << [userId |-> userId, betId |-> betId, amount |-> amount] >> \o @]

addLedgerEntry(S, userId, betId, amount) ==
    [S EXCEPT !.ledger = Append(@,
        [userId |-> userId, betId |-> betId, amount |-> amount])]

\* entries.reduce((total, entry) => total + entry.amount, 0)
RECURSIVE SumAmounts(_)
SumAmounts(entries) ==
    IF entries = << >> THEN DZero
    ELSE DAdd(SumAmounts(SubSeq(entries, 1, Len(entries) - 1)),
              entries[Len(entries)].amount)

\* getUserLedger that forgets the filter
getUserLedgerOfAll(S, userId) == S.ledger

getUserLedger(S, userId) ==
    SelectSeq(S.ledger, LAMBDA entry : entry.userId = userId)

getUserBalance(S, userId) ==
    SumAmounts(SelectSeq(S.ledger, LAMBDA entry : entry.userId = userId))

winners(bet, winningSide) ==
    SelectSeq(bet.participants, LAMBDA p : p.side = winningSide)

losers(bet, winningSide) ==
    SelectSeq(bet.participants, LAMBDA p : p.side # winningSide)

\* winningsPerPerson without the number of losers
winningsPerPersonOneLoser(bet, winningSide) ==
    DDivInt(bet.stake, Len(winners(bet, winningSide)))

winningsPerPerson(bet, winningSide) ==
    DDivInt(bet.stake * Len(losers(bet, winningSide)),
            Len(winners(bet, winningSide)))

\* loserAmount without the sign
loserAmountCredited(bet) == DFromInt(bet.stake)

loserAmount(bet) == DFromInt(-bet.stake)

\* addEntries that stops one participant short
RECURSIVE addEntriesButLast(_, _, _, _)
addEntriesButLast(S, ps, betId, amount) ==
    IF Len(ps) <= 1 THEN S
    ELSE addEntriesButLast(addLedgerEntry(S, Head(ps).userId, betId, amount),
                           Tail(ps), betId, amount)

\* ps.forEach(p => this.addLedgerEntry({userId: p.userId, betId, amount}))
RECURSIVE addEntries(_, _, _, _)
addEntries(S, ps, betId, amount) ==
    IF ps = << >> THEN S
    ELSE addEntries(addLedgerEntry(S, Head(ps).userId, betId, amount),
                    Tail(ps), betId, amount)

\* hasPayout that forgets the losers
hasPayoutAnyWinner(ws, ls) == Len(ws) > 0

\* the guard of the payout block: both partitions are non-empty
hasPayout(ws, ls) == Len(ws) > 0 /\ Len(ls) > 0

\* resolveBetReturnsEarly without the test of the status
resolveBetReturnsEarlyUnknownOnly(S, betId) == ~HasBet(S, betId)

\* the early return of resolveBet
resolveBetReturnsEarly(S, betId) ==
    ~HasBet(S, betId) \/ S.bets[betId].status = "resolved"

resolveBet(S, betId, winningSide) ==
    IF resolveBetReturnsEarly(S, betId) THEN S
    ELSE LET bet == S.bets[betId]
             S1  == [S EXCEPT !.bets[betId].status = "resolved"]
             ws  == winners(bet, winningSide)
             ls  == losers(bet, winningSide)
         IN  IF hasPayout(ws, ls)
             THEN addEntries(
                      addEntries(S1, ws, betId, winningsPerPerson(bet, winningSide)),
                      ls, betId, loserAmount(bet))
             ELSE S1

voteOnBet(S, betId, userId, winningSide) ==
    IF HasBet(S, betId) /\ S.bets[betId].status = "voting"
    THEN resolveBet(S, betId, winningSide)
    ELSE S

\* eventPassed that misses the instant of the event
eventPassedStrictly(bet, clock) == bet.eventDate < clock

\* bet.eventDate <= now
eventPassed(bet, clock) == bet.eventDate <= clock

\* checkAndProgressBet without the tests of the status
checkAndProgressBetAnyStatus(S, betId, clock) ==
    IF HasBet(S, betId) /\ eventPassed(S.bets[betId], clock)
    THEN [S EXCEPT !.bets[betId].status = "awaiting_proof"]
    ELSE S

checkAndProgressBet(S, betId, clock) ==
    IF ~HasBet(S, betId) THEN S
    ELSE LET S1 == IF S.bets[betId].status = "draft"
                      /\ Len(S.bets[betId].participants) >= 2
                      /\ eventPassed(S.bets[betId], clock)
                   THEN [S EXCEPT !.bets[betId].status = "locked"]
                   ELSE S
         IN  IF S1.bets[betId].status = "locked"
                /\ eventPassed(S1.bets[betId], clock)
             THEN [S1 EXCEPT !.bets[betId].status = "awaiting_proof"]
             ELSE S1

updateBetStatus(S, betId, status) ==
    IF HasBet(S, betId) THEN [S EXCEPT !.bets[betId].status = status] ELSE S

getUserGroups(S, userId) ==
    SelectSeq(S.groups, LAMBDA group : Includes(group.memberIds, userId))

\* DashboardLayout.handleCreateGroup: betStore.createGroup(user.id, name),
\* while the method is createGroup(name, creatorId)
handleCreateGroup(S, userId, name, inviteCode) ==
    createGroup(S, userId, name, inviteCode)

\* the resolved view of the bet page names the winner:
\* bet.winnerSide === 'A' ? bet.sideA : bet.sideB
resolvedViewWinner(bet) == IF bet.winnerSide = "A" THEN "A" ELSE "B"

(***************************************************************************)
(* initializeMockData, which the module runs when it is loaded: the store  *)
(* every session of the application starts from.  Dates are days relative  *)
(* to the load (Date.now() + n days); the three invite codes drawn are     *)
(* distinct.                                                               *)
(***************************************************************************)
MockUsers == {"alice", "bob", "charlie", "diana"}

MockStore ==
    LET g1 == createGroup(EmptyStore, "College Friends", "alice", "CODE1")
        g2 == joinGroup(joinGroup(g1, "CODE1", "bob"), "CODE1", "charlie")
        g3 == createGroup(g2, "Office Squad", "bob", "CODE2")
        g4 == joinGroup(joinGroup(g3, "CODE2", "alice"), "CODE2", "diana")
        g5 == createGroup(g4, "Gaming Crew", "charlie", "CODE3")
        g6 == joinGroup(joinGroup(joinGroup(g5, "CODE3", "alice"),
                                  "CODE3", "bob"), "CODE3", "diana")
        b1 == acceptBet(acceptBet(createBet(g6, 1, "alice", 25, 7),
                                  1, "bob", "B"), 1, "charlie", "A")
        b2 == acceptBet(acceptBet(createBet(b1, 2, "bob", 50, 2),
                                  2, "alice", "A"), 2, "diana", "B")
        b3 == createBet(b2, 3, "charlie", 20, 60)
        b4 == acceptBet(acceptBet(createBet(b3, 1, "alice", 30, -5),
                                  4, "bob", "B"), 4, "charlie", "A")
        l1 == addLedgerEntry(b4, "alice", 4, DFromInt(30))
        l2 == addLedgerEntry(l1, "bob", 4, DFromInt(-30))
        l3 == addLedgerEntry(l2, "charlie", 4, DZero)
    IN  acceptBet(createBet(l3, 2, "diana", 15, 14), 5, "alice", "A")

(***************************************************************************)
(* Actions: one call of a store method, or one handler of the bet page.    *)
(* `last` records the call: the method, its arguments, what it returned,   *)
(* and the bet's status and the ledger's length when it was called; and,   *)
(* over all calls so far, the bets on which a vote was cast while voting.  *)
(***************************************************************************)
NoCall ==
    [op |-> "none", bet |-> 0, user |-> "-", arg |-> "-", ret |-> "-",
     pre |-> "none", len |-> 0, voted |-> {}]

Call(op, betId, userId, arg, ret) ==
    [op |-> op, bet |-> betId, user |-> userId, arg |-> arg, ret |-> ret,
     pre |-> IF HasBet(Store, betId) THEN bets[betId].status ELSE "none",
     len |-> Len(ledger),
     voted |-> IF op = "voteOnBet" /\ HasBet(Store, betId)
                  /\ bets[betId].status = "voting"
               THEN last.voted \cup {betId}
               ELSE last.voted]

Install(S) ==
    /\ bets' = S.bets
    /\ ledger' = S.ledger
    /\ groups' = S.groups
    /\ groupMembers' = S.groupMembers

\* the store as constructed (export const betStore = new BetStore())
Init ==
    /\ bets = EmptyStore.bets
    /\ ledger = EmptyStore.ledger
    /\ groups = EmptyStore.groups
    /\ groupMembers = EmptyStore.groupMembers
    /\ now = 0
    /\ last = NoCall

CreateBet(groupId, creatorId, stake, eventDate) ==
    /\ Install(createBet(Store, groupId, creatorId, stake, eventDate))
    /\ last' = Call("createBet", Len(bets) + 1, "-", "-", "bet")
    /\ UNCHANGED now

AcceptBet(betId, userId, side) ==
    /\ Install(acceptBet(Store, betId, userId, side))
    /\ last' = Call("acceptBet", betId, userId, side,
                    acceptBetReturn(Store, betId, userId))
    /\ UNCHANGED now

LockBet(betId) ==
    /\ Install(lockBet(Store, betId))
    /\ last' = Call("lockBet", betId, "-", "-", "-")
    /\ UNCHANGED now

SubmitProof(betId, userId, proof) ==
    /\ Install(submitProof(Store, betId, userId, proof))
    /\ last' = Call("submitProof", betId, "-", "-", "-")
    /\ UNCHANGED now

VoteOnBet(betId, userId, winningSide) ==
    /\ Install(voteOnBet(Store, betId, userId, winningSide))
    /\ last' = Call("voteOnBet", betId, "-", winningSide, "-")
    /\ UNCHANGED now

ResolveBet(betId, winningSide) ==
    /\ Install(resolveBet(Store, betId, winningSide))
    /\ last' = Call("resolveBet", betId, "-", winningSide, "-")
    /\ UNCHANGED now

CheckAndProgressBet(betId) ==
    /\ Install(checkAndProgressBet(Store, betId, now))
    /\ last' = Call("checkAndProgressBet", betId, "-", "-", "-")
    /\ UNCHANGED now

UpdateBetStatus(betId, status) ==
    /\ Install(updateBetStatus(Store, betId, status))
    /\ last' = Call("updateBetStatus", betId, "-", status, "-")
    /\ UNCHANGED now

\* time passes between calls (new Date() in checkAndProgressBet)
Tick ==
    /\ now < MaxClock
    /\ now' = now + 1
    /\ UNCHANGED << bets, ledger, groups, groupMembers, last >>

\* the bet ids a caller may pass: every bet of the store, and one unknown id
BetIds == 1..(Len(bets) + 1)

\* the model stops settling once the ledger would outgrow MaxLedger
LedgerRoom(S) == Len(S.ledger) <= MaxLedger

Next ==
    \/ \E c \in Creators, s \in Stakes, d \in EventDates :
          Len(bets) < MaxBets /\ CreateBet(1, c, s, d)
    \/ \E b \in BetIds, u \in Users, side \in Sides : AcceptBet(b, u, side)
    \/ \E b \in BetIds : LockBet(b)
    \/ \E b \in BetIds, u \in Users, p \in Proofs : SubmitProof(b, u, p)
    \/ \E b \in BetIds, u \in Users, w \in Sides :
          LedgerRoom(voteOnBet(Store, b, u, w)) /\ VoteOnBet(b, u, w)
    \/ \E b \in BetIds, w \in Sides :
          LedgerRoom(resolveBet(Store, b, w)) /\ ResolveBet(b, w)
    \/ \E b \in BetIds : CheckAndProgressBet(b)
    \/ \E b \in BetIds, st \in Statuses : UpdateBetStatus(b, st)
    \/ Tick

Spec == Init /\ [][Next]_vars

(***************************************************************************)
(* Single calls on an arbitrary bet.  updateBetStatus sets any status on   *)
(* any bet, so between two acceptBet calls a bet can be put back to draft: *)
(* every combination of status and participant list is a state of the     *)
(* store.  InitCalls draws one such bet (the first k of People, each on    *)
(* either side) and NextCalls applies acceptBet and resolveBet to it.      *)
(***************************************************************************)
People == << "alice", "bob", "charlie", "diana", "erin", "frank", "grace",
             "heidi", "ivan", "judy" >>
CallStakes == {1, 3}

MaxParticipants == 7

\* who calls acceptBet: the first participant of the bet (if it has any) and
\* somebody who is never among the drawn participants
Callers == {People[1], People[MaxParticipants + 1]}

InitCalls ==
    /\ \E k \in 0..MaxParticipants, st \in Statuses, s \in CallStakes :
       \E sides \in [1..k -> Sides] :
          bets = << [groupId |-> 1, creatorId |-> "alice", stake |-> s,
                     eventDate |-> 1, status |-> st,
                     participants |->
                         [i \in 1..k |-> [userId |-> People[i], side |-> sides[i]]],
                     winnerSide |-> "undefined"] >>
    /\ ledger = << >>
    /\ groups = << >>
    /\ groupMembers = << >>
    /\ now = 0
    /\ last = NoCall

NextCalls ==
    \/ \E b \in BetIds, u \in Callers, side \in Sides : AcceptBet(b, u, side)
    \/ \E b \in BetIds, w \in Sides : ResolveBet(b, w)

SpecCalls == InitCalls /\ [][NextCalls]_vars

(***************************************************************************)
(* The application as loaded: the store holds the mock data, and the bet   *)
(* page (BetDetails) renders a bet and offers to accept it.                *)
(***************************************************************************)
InitMock ==
    /\ bets = MockStore.bets
    /\ ledger = MockStore.ledger
    /\ groups = MockStore.groups
    /\ groupMembers = MockStore.groupMembers
    /\ now = 0
    /\ last = NoCall

\* BetDetails: const canParticipate = isGroupMember && !userParticipation && draft
canParticipate(S, betId, userId) ==
    /\ HasGroup(S, S.bets[betId].groupId)
    /\ Includes(S.groups[S.bets[betId].groupId].memberIds, userId)
    /\ ~\E i \in 1..Len(S.bets[betId].participants) :
           S.bets[betId].participants[i].userId = userId
    /\ S.bets[betId].status = "draft"

\* rendering the page of a bet runs checkAndProgressBet
ViewBet(betId) ==
    /\ HasBet(Store, betId)
    /\ Install(checkAndProgressBet(Store, betId, now))
    /\ last' = Call("viewBet", betId, "-", "-", "-")
    /\ UNCHANGED now

\* the accept buttons, shown when canParticipate; the handler navigates to
\* the same page, which renders again
HandleAcceptBet(betId, userId, side) ==
    /\ HasBet(Store, betId)
    /\ canParticipate(Store, betId, userId)
    /\ Install(checkAndProgressBet(acceptBet(Store, betId, userId, side),
                                   betId, now))
    /\ last' = Call("handleAcceptBet", betId, userId, side,
                    acceptBetReturn(Store, betId, userId))
    /\ UNCHANGED now

\* advanceBetStatus up to its store call; winningSide is the side that
\* Math.random() picks when the bet is in voting
advanceBetStatus(S, betId, winningSide) ==
    LET bet == S.bets[betId]
    IN  CASE bet.status = "draft" ->
                 IF Len(bet.participants) >= 2
                 THEN updateBetStatus(S, betId, "locked") ELSE S
          [] bet.status = "pending" -> updateBetStatus(S, betId, "locked")
          [] bet.status = "locked" -> updateBetStatus(S, betId, "awaiting_proof")
          [] bet.status = "awaiting_proof" -> updateBetStatus(S, betId, "voting")
          [] bet.status = "voting" -> resolveBet(S, betId, winningSide)
          [] OTHER -> S

\* advanceBetStatus goes on to window.location.reload() unless it returned
\* before its store call
advanceReloads(S, betId) ==
    LET bet == S.bets[betId]
    IN  \/ bet.status \in {"pending", "locked", "awaiting_proof", "voting"}
        \/ bet.status = "draft" /\ Len(bet.participants) >= 2

\* window.location.reload(): the module is loaded again, and the store,
\* which lives in memory only, is the mock data once more
reload(S) == MockStore

\* the Advance button of the testing controls, disabled on a resolved bet;
\* after the reload the clock, which counts from the load, starts again
AdvanceBetStatus(betId, winningSide) ==
    /\ HasBet(Store, betId)
    /\ bets[betId].status # "resolved"
    /\ IF advanceReloads(Store, betId)
       THEN /\ Install(reload(advanceBetStatus(Store, betId, winningSide)))
            /\ now' = 0
       ELSE /\ Install(advanceBetStatus(Store, betId, winningSide))
            /\ now' = now
    /\ last' = Call("advanceBetStatus", betId, "-", winningSide, "-")

NextMock ==
    \/ \E b \in 1..Len(bets) : ViewBet(b)
    \/ \E b \in 1..Len(bets), u \in MockUsers, side \in Sides :
          HandleAcceptBet(b, u, side)
    \/ \E b \in 1..Len(bets), w \in Sides : AdvanceBetStatus(b, w)
    \/ Tick

SpecMock == InitMock /\ [][NextMock]_vars

(***************************************************************************)
(* The life of one bet.  InitBet is the store after one createBet; NextBet *)
(* is every store method that takes a bet id, and the passing of time.     *)
(***************************************************************************)
BetDates == {0, 1}

InitBet ==
    /\ \E d \in BetDates :
          bets = createBet(EmptyStore, 1, "alice", 3, d).bets
    /\ ledger = EmptyStore.ledger
    /\ groups = EmptyStore.groups
    /\ groupMembers = EmptyStore.groupMembers
    /\ now = 0
    /\ last = NoCall

NextBet ==
    \/ \E b \in BetIds, u \in Users, side \in Sides : AcceptBet(b, u, side)
    \/ \E b \in BetIds : LockBet(b)
    \/ \E b \in BetIds, u \in Users, p \in Proofs : SubmitProof(b, u, p)
    \/ \E b \in BetIds, u \in Users, w \in Sides :
          LedgerRoom(voteOnBet(Store, b, u, w)) /\ VoteOnBet(b, u, w)
    \/ \E b \in BetIds, w \in Sides :
          LedgerRoom(resolveBet(Store, b, w)) /\ ResolveBet(b, w)
    \/ \E b \in BetIds : CheckAndProgressBet(b)
    \/ \E b \in BetIds, st \in Statuses : UpdateBetStatus(b, st)
    \/ Tick

SpecBet == InitBet /\ [][NextBet]_vars

(***************************************************************************)
(* Groups.  generateInviteCode draws a random code, so two groups may get  *)
(* the same one; joinGroup is also called with a code no group has.        *)
(***************************************************************************)
Bettors == {"alice", "bob", "charlie"}
GroupNames == {"College Friends"}
InviteCodes == {"AAAAAA", "BBBBBB"}
JoinCodes == InviteCodes \cup {"ZZZZZZ"}

MaxGroups == 2

CreateGroup(name, creatorId, inviteCode) ==
    /\ Install(createGroup(Store, name, creatorId, inviteCode))
    /\ last' = Call("createGroup", 0, creatorId, inviteCode, "group")
    /\ UNCHANGED now

JoinGroup(inviteCode, userId) ==
    /\ Install(joinGroup(Store, inviteCode, userId))
    /\ last' = Call("joinGroup", 0, userId, inviteCode,
                    joinGroupReturn(Store, inviteCode, userId))
    /\ UNCHANGED now

NextGroups ==
    \/ \E n \in GroupNames, u \in Bettors, c \in InviteCodes :
          Len(groups) < MaxGroups /\ CreateGroup(n, u, c)
    \/ \E c \in JoinCodes, u \in Bettors : JoinGroup(c, u)

SpecGroups == Init /\ [][NextGroups]_vars

(***************************************************************************)
(* Bets of a group.  InitGate is the store after alice created a group;    *)
(* users join it, create a bet in it and accept the bet.                   *)
(***************************************************************************)
InitGate ==
    LET S == createGroup(EmptyStore, "College Friends", "alice", "AAAAAA")
    IN  /\ bets = S.bets
        /\ ledger = S.ledger
        /\ groups = S.groups
        /\ groupMembers = S.groupMembers
        /\ now = 0
        /\ last = NoCall

NextGate ==
    \/ \E c \in JoinCodes, u \in Bettors : JoinGroup(c, u)
    \/ \E u \in Bettors, s \in Stakes, d \in EventDates :
          Len(bets) < MaxBets /\ CreateBet(1, u, s, d)
    \/ \E b \in BetIds, u \in Bettors, side \in Sides : AcceptBet(b, u, side)

SpecGate == InitGate /\ [][NextGate]_vars

(***************************************************************************)
(* The ledger and its two queries.  addLedgerEntry is public (the mock     *)
(* data calls it): entries for either user and either of two bet ids, with *)
(* a rounded and an exact amount.                                          *)
(***************************************************************************)
LedgerBets == {1, 2}
LedgerAmounts == {DDivInt(1, 3), DFromInt(-1)}

MaxEntries == 3

AddLedgerEntry(userId, betId, amount) ==
    /\ Install(addLedgerEntry(Store, userId, betId, amount))
    /\ last' = Call("addLedgerEntry", betId, userId, "-", "-")
    /\ UNCHANGED now

GetUserBalance(userId) ==
    /\ last' = Call("getUserBalance", 0, userId, "-",
                    getUserBalance(Store, userId))
    /\ UNCHANGED << bets, ledger, groups, groupMembers, now >>

GetUserLedger(userId) ==
    /\ last' = Call("getUserLedger", 0, userId, "-",
                    getUserLedger(Store, userId))
    /\ UNCHANGED << bets, ledger, groups, groupMembers, now >>

NextLedger ==
    \/ \E u \in Users, b \in LedgerBets, a \in LedgerAmounts :
          Len(ledger) < MaxEntries /\ AddLedgerEntry(u, b, a)
    \/ \E u \in Users : GetUserBalance(u)
    \/ \E u \in Users : GetUserLedger(u)

SpecLedger == Init /\ [][NextLedger]_vars

(***************************************************************************)
(* The dashboard: a logged-in user creates groups (handleCreateGroup) in   *)
(* the store as loaded, and users join with an invite code.                *)
(***************************************************************************)
DashboardUsers == {"alice", "diana"}
TypedNames == {"Poker Night", "Book Club"}
DashboardCodes == {"CODE3", "CODE4"}

HandleCreateGroup(userId, name, inviteCode) ==
    /\ Install(handleCreateGroup(Store, userId, name, inviteCode))
    /\ last' = Call("handleCreateGroup", 0, userId, name, "group")
    /\ UNCHANGED now

NextDashboard ==
    \/ \E u \in DashboardUsers, n \in TypedNames, c \in DashboardCodes :
          /\ Len(groups) < Len(MockStore.groups) + MaxGroups
          /\ HandleCreateGroup(u, n, c)
    \/ \E c \in DashboardCodes, u \in DashboardUsers : JoinGroup(c, u)

SpecDashboard == InitMock /\ [][NextDashboard]_vars

(***************************************************************************)
(* The guarded operations alone: one created bet, and only acceptBet,      *)
(* checkAndProgressBet, submitProof, voteOnBet and the clock.  Every call  *)
(* is made again and again (weak fairness of each).                        *)
(***************************************************************************)
NextGuarded ==
    \/ \E b \in BetIds, u \in Users, side \in Sides : AcceptBet(b, u, side)
    \/ \E b \in BetIds : CheckAndProgressBet(b)
    \/ \E b \in BetIds, u \in Users, p \in Proofs : SubmitProof(b, u, p)
    \/ \E b \in BetIds, u \in Users, w \in Sides : VoteOnBet(b, u, w)
    \/ Tick

SpecGuarded ==
    /\ InitBet
    /\ [][NextGuarded]_vars
    /\ \A u \in Users, side \in Sides : WF_vars(AcceptBet(1, u, side))
    /\ WF_vars(CheckAndProgressBet(1))
    /\ \A u \in Users, p \in Proofs : WF_vars(SubmitProof(1, u, p))
    /\ \A u \in Users, w \in Sides : WF_vars(VoteOnBet(1, u, w))
    /\ WF_vars(Tick)

(***************************************************************************)
(* checkAndProgressBet on two arbitrary bets.  updateBetStatus sets any    *)
(* status, so InitCheck draws, for each bet, a status, none, one or two    *)
(* participants and an event date before, at or after the clock.           *)
(***************************************************************************)
CheckDates == {0, 1, 2}
CheckParticipants ==
    << << >>,
       << [userId |-> "alice", side |-> "A"] >>,
       << [userId |-> "alice", side |-> "A"], [userId |-> "bob", side |-> "B"] >> >>

InitCheck ==
    /\ \E st \in [1..2 -> Statuses], k \in [1..2 -> 1..3], d \in [1..2 -> CheckDates] :
          bets = [b \in 1..2 |->
                    [groupId |-> 1, creatorId |-> "alice", stake |-> 3,
                     eventDate |-> d[b], status |-> st[b],
                     participants |-> CheckParticipants[k[b]],
                     winnerSide |-> "undefined"]]
    /\ ledger = << >>
    /\ groups = << >>
    /\ groupMembers = << >>
    /\ now = 0
    /\ last = NoCall

NextCheck ==
    \/ \E b \in BetIds : CheckAndProgressBet(b)
    \/ Tick

SpecCheck == InitCheck /\ [][NextCheck]_vars

(***************************************************************************)
(* Properties.                                                             *)
(***************************************************************************)
\* the bet the last call named, when the store has it
LastBet == bets[last.bet]

\* the ledger entries the last call appended
Appended == SubSeq(ledger, last.len + 1, Len(ledger))

\* the last call was resolveBet and it moved its bet to resolved
JustResolved ==
    /\ last.op = "resolveBet"
    /\ last.pre \notin {"resolved", "none"}

OnSide(bet, side) == {i \in 1..Len(bet.participants) : bet.participants[i].side = side}

OffSide(bet, side) == {i \in 1..Len(bet.participants) : bet.participants[i].side # side}

EntriesOf(entries, betId, userId) ==
    {j \in 1..Len(entries) :
        entries[j].betId = betId /\ entries[j].userId = userId}

RECURSIVE OddPart(_)
OddPart(d) == IF d % 2 = 0 THEN OddPart(d \div 2) ELSE d

\* n / d is a binary fraction, which a double holds exactly
ExactQuotient(n, d) == n % OddPart(d) = 0

StatusOrder == << "draft", "pending", "locked", "awaiting_proof", "voting",
                 "resolved" >>

Rank(status) == CHOOSE r \in 1..Len(StatusOrder) : StatusOrder[r] = status

\* C1: on a new bet, acceptBet by a first user succeeds and leaves the bet
\* pending; acceptBet by a second, different user on the other side then
\* succeeds as well and leaves the bet locked with two participants.
C1_SecondAcceptLocks ==
    (last.op = "acceptBet" /\ last.pre \in {"draft", "pending"}) =>
        LET ps == LastBet.participants
        IN  /\ (last.pre = "draft" /\ ps = << [userId |-> last.user, side |-> last.arg] >>)
                   => (last.ret = "bet" /\ LastBet.status = "pending")
            /\ (/\ last.pre = "pending"
                /\ Len(ps) >= 1
                /\ ps[1].userId # last.user
                /\ ps[1].side # last.arg
                /\ Len(ps) = 1 \/ (Len(ps) = 2 /\ ps[2].userId = last.user))
                   => (/\ last.ret = "bet"
                       /\ LastBet.status = "locked"
                       /\ Len(ps) = 2)

\* C2: no participant of a bet ever has two ledger entries carrying that
\* bet's id.
C2_SettledOnce ==
    \A b \in 1..Len(bets) : \A i \in 1..Len(bets[b].participants) :
        Cardinality(EntriesOf(ledger, b, bets[b].participants[i].userId)) <= 1

\* C3: every ledger entry refers to a bet of the store whose status is
\* resolved.
C3_LedgerOnlyForResolved ==
    \A j \in 1..Len(ledger) :
        /\ HasBet(Store, ledger[j].betId)
        /\ bets[ledger[j].betId].status = "resolved"

\* C4: resolveBet on a bet that is already resolved changes neither the bets
\* nor the ledger, for either winning side; resolveBet applied twice leaves
\* the state resolveBet applied once leaves.
C4_ResolveResolvedNoOp ==
    /\ [](\A b \in BetIds : \A w1 \in Sides, w2 \in Sides :
            resolveBet(resolveBet(Store, b, w1), b, w2) = resolveBet(Store, b, w1))
    /\ [][(last'.op = "resolveBet" /\ last'.pre = "resolved")
             => (bets' = bets /\ ledger' = ledger)]_vars

C4_Witness ==
    /\ last.op = "resolveBet"
    /\ last.pre = "resolved"
    /\ LastBet.status = "resolved"
    /\ Len(ledger) = Len(LastBet.participants)
    /\ Len(ledger) >= 2

\* C5: no step moves the status of a bet to an earlier one in the order
\* draft < pending < locked < awaiting_proof < voting < resolved, and a
\* resolved bet stays resolved.
C5_ForwardOnly ==
    [][\A b \in 1..Len(bets) :
          /\ (bets[b].status # "void" /\ bets'[b].status # "void")
                => Rank(bets'[b].status) >= Rank(bets[b].status)
          /\ bets[b].status = "resolved" => bets'[b].status = "resolved"]_vars

\* C6: resolveBet on an unresolved bet with participants on both sides
\* appends one entry per winner with amount stake * |losers| / |winners| and
\* one entry per loser with amount -stake, all with the bet's id, and
\* nothing else.
C6_Payouts ==
    JustResolved =>
        LET W   == OnSide(LastBet, last.arg)
            L   == OffSide(LastBet, last.arg)
            ps  == LastBet.participants
        IN  (W # {} /\ L # {}) =>
               /\ Len(Appended) = Len(ps)
               /\ \A i \in 1..Len(ps) :
                     /\ Cardinality(EntriesOf(Appended, last.bet, ps[i].userId)) = 1
                     /\ \A j \in EntriesOf(Appended, last.bet, ps[i].userId) :
                           Appended[j].amount =
                               IF i \in W
                               THEN DDivInt(LastBet.stake * Cardinality(L),
                                            Cardinality(W))
                               ELSE DFromInt(-LastBet.stake)

C6_Witness ==
    /\ JustResolved
    /\ Cardinality(OnSide(LastBet, last.arg)) = 3
    /\ Cardinality(OffSide(LastBet, last.arg)) = 2
    /\ LastBet.stake = 1
    /\ Len(Appended) = 5
    /\ Appended[1].amount = DDivInt(2, 3)
    /\ Appended[5].amount = DFromInt(-1)

\* C7 as stated: the amounts of the entries one resolveBet appends sum to
\* zero, for every stake and every split into winners and losers.
C7_ZeroSum ==
    (JustResolved /\ OnSide(LastBet, last.arg) # {} /\ OffSide(LastBet, last.arg) # {})
        => SumAmounts(Appended) = DZero

\* C7 as amended: the amounts of the entries one resolveBet appends sum to
\* zero whenever stake * |losers| / |winners| is a binary fraction, which
\* the division yields exactly.
C7_ZeroSumExactQuotient ==
    (/\ JustResolved
     /\ OnSide(LastBet, last.arg) # {}
     /\ OffSide(LastBet, last.arg) # {}
     /\ ExactQuotient(LastBet.stake * Cardinality(OffSide(LastBet, last.arg)),
                      Cardinality(OnSide(LastBet, last.arg))))
        => SumAmounts(Appended) = DZero

C7_Witness ==
    /\ JustResolved
    /\ Cardinality(OnSide(LastBet, last.arg)) = 4
    /\ Cardinality(OffSide(LastBet, last.arg)) = 3
    /\ LastBet.stake = 1
    /\ Len(Appended) = 7
    /\ Appended[1].amount = DDivInt(3, 4)
    /\ SumAmounts(Appended) = DZero

\* C8: resolveBet on an unresolved bet with nobody on the winning side, or
\* nobody on the other side, leaves the ledger unchanged.
C8_NoPayoutOneSided ==
    [][(/\ last'.op = "resolveBet"
        /\ last'.pre \notin {"resolved", "none"}
        /\ \/ OnSide(bets[last'.bet], last'.arg) = {}
           \/ OffSide(bets[last'.bet], last'.arg) = {})
          => ledger' = ledger]_vars

C8_Witness ==
    /\ JustResolved
    /\ LastBet.status = "resolved"
    /\ Len(LastBet.participants) = 3
    /\ OffSide(LastBet, last.arg) = {}
    /\ ledger = << >>

\* C9 as stated: after resolveBet moved a bet to resolved, the ledger holds
\* exactly one entry with the bet's id for each participant of the bet.
C9_OneEntryEach ==
    JustResolved =>
        \A i \in 1..Len(LastBet.participants) :
            Cardinality(EntriesOf(ledger, last.bet,
                                  LastBet.participants[i].userId)) = 1

\* C9 as amended: when resolveBet moves a bet to resolved, it appends exactly
\* one entry with the bet's id for each participant if both sides have a
\* participant, and no entry if a side is empty.
C9_OneAppendedEach ==
    JustResolved =>
        IF OnSide(LastBet, last.arg) # {} /\ OffSide(LastBet, last.arg) # {}
        THEN /\ Len(Appended) = Len(LastBet.participants)
             /\ \A i \in 1..Len(LastBet.participants) :
                   Cardinality(EntriesOf(Appended, last.bet,
                                         LastBet.participants[i].userId)) = 1
        ELSE Appended = << >>

C9_Witness ==
    /\ JustResolved
    /\ Cardinality(OnSide(LastBet, last.arg)) = 1
    /\ Cardinality(OffSide(LastBet, last.arg)) = 1
    /\ Len(Appended) = 2
    /\ Appended[1].userId # Appended[2].userId

C11_ParticipatesOnce ==
    \A b \in 1..Len(bets) :
        \A i \in 1..Len(bets[b].participants), j \in 1..Len(bets[b].participants) :
            bets[b].participants[i].userId = bets[b].participants[j].userId
                => i = j

C11_Witness ==
    /\ last.op = "acceptBet"
    /\ last.pre = "draft"
    /\ last.ret = "null"
    /\ Len(LastBet.participants) = 2
    /\ LastBet.participants[2].userId = last.user

\* C12: a voteOnBet on a bet in voting on which no vote was cast before
\* resolves the bet and settles it with the voter's side as the winning
\* side; every voteOnBet on a bet on which a vote was cast before, and every
\* voteOnBet on a bet that is not in voting, changes neither the bets nor
\* the ledger.
C12_FirstVoteWins ==
    [][(last'.op = "voteOnBet" /\ last'.pre # "none" /\ now' = now) =>
          LET b == last'.bet
              w == last'.arg
          IN  IF b \in last.voted \/ bets[b].status # "voting"
              THEN bets' = bets /\ ledger' = ledger
              ELSE /\ bets'[b].status = "resolved"
                   /\ bets'[b].participants = bets[b].participants
                   /\ (OnSide(bets[b], w) # {} /\ OffSide(bets[b], w) # {}) =>
                         /\ Len(ledger') = Len(ledger) + Len(bets[b].participants)
                         /\ \A j \in (Len(ledger) + 1)..Len(ledger') :
                               ledger'[j].amount.neg =
                                   (\E i \in OffSide(bets[b], w) :
                                       bets[b].participants[i].userId
                                           = ledger'[j].userId)]_vars

\* C13: a bet becomes resolved only in a step that starts with the bet in
\* voting.
C13_ResolvedOnlyFromVoting ==
    [][\A b \in 1..Len(bets) :
          (bets'[b].status = "resolved" /\ bets[b].status # "resolved")
              => bets[b].status = "voting"]_vars

\* C14: in every state, the creator and every participant of every bet is a
\* member of the bet's group.
C14_MembersOnly ==
    \A b \in 1..Len(bets) :
        /\ HasGroup(Store, bets[b].groupId)
        /\ Includes(groups[bets[b].groupId].memberIds, bets[b].creatorId)
        /\ \A i \in 1..Len(bets[b].participants) :
              Includes(groups[bets[b].groupId].memberIds,
                       bets[b].participants[i].userId)

\* C15: joinGroup with a code no group has, or by a user who is already a
\* member of the group the code designates (the first group carrying it),
\* returns null and leaves the groups and their members unchanged; joining
\* a second time leaves the store as the first join left it.
C15_JoinRejects ==
    /\ [](\A c \in JoinCodes, u \in Bettors :
            joinGroup(joinGroup(Store, c, u), c, u) = joinGroup(Store, c, u))
    /\ [][(/\ last'.op = "joinGroup"
           /\ \/ \A g \in 1..Len(groups) : groups[g].inviteCode # last'.arg
              \/ \E g \in 1..Len(groups) :
                    /\ groups[g].inviteCode = last'.arg
                    /\ \A h \in 1..(g - 1) : groups[h].inviteCode # last'.arg
                    /\ Includes(groups[g].memberIds, last'.user))
             => /\ last'.ret = "null"
                /\ groups' = groups
                /\ groupMembers' = groupMembers]_vars

C15_Witness ==
    /\ last.op = "joinGroup"
    /\ last.ret = "null"
    /\ Len(groups) = 1
    /\ groups[1].inviteCode = last.arg
    /\ Len(groups[1].memberIds) = 2
    /\ groups[1].memberIds[2] = last.user

\* C16: in every state, the memberIds of every group hold no user twice and
\* hold the group's creatorId.
C16_MembersUniqueWithCreator ==
    \A g \in 1..Len(groups) :
        /\ \A i \in 1..Len(groups[g].memberIds), j \in 1..Len(groups[g].memberIds) :
              groups[g].memberIds[i] = groups[g].memberIds[j] => i = j
        /\ Includes(groups[g].memberIds, groups[g].creatorId)

C16_Witness ==
    /\ Len(groups) = 2
    /\ Len(groups[1].memberIds) = 3
    /\ Len(groups[2].memberIds) = 2
    /\ groups[2].creatorId = groups[1].memberIds[3]
    /\ groups[2].memberIds[2] = groups[1].creatorId

\* C17: in every state, no bet has the status void.
C17_NeverVoid ==
    \A b \in 1..Len(bets) : bets[b].status # "void"

\* C18: submitProof moves a bet in awaiting_proof to voting and changes
\* nothing else; on a bet in any other status it changes nothing; the
\* participants, the ledger and the groups are never changed, and the store
\* it leaves does not depend on the proof text.
C18_ProofOnlyWhenAwaited ==
    /\ [](\A b \in BetIds, u \in Users, p \in Proofs, q \in Proofs :
            submitProof(Store, b, u, p) = submitProof(Store, b, u, q))
    /\ [][(last'.op = "submitProof" /\ last'.pre # "none" /\ now' = now) =>
             /\ bets' = IF bets[last'.bet].status = "awaiting_proof"
                        THEN [bets EXCEPT ![last'.bet].status = "voting"]
                        ELSE bets
             /\ ledger' = ledger
             /\ groups' = groups
             /\ groupMembers' = groupMembers]_vars

C18_Witness ==
    /\ last.op = "submitProof"
    /\ last.pre = "awaiting_proof"
    /\ LastBet.status = "voting"
    /\ Len(LastBet.participants) = 2
    /\ ledger = << >>

\* C19: checkAndProgressBet on a locked bet leaves it in awaiting_proof if the
\* event date is at or before the current time, and locked otherwise.
C19_AwaitProofWhenDue ==
    [][(last'.op = "checkAndProgressBet" /\ last'.pre = "locked" /\ now' = now) =>
          LET b == last'.bet
          IN  /\ bets'[b].status = "awaiting_proof" <=> bets[b].eventDate <= now
              /\ bets[b].eventDate > now => bets'[b].status = "locked"]_vars

C19_Witness ==
    /\ last.op = "checkAndProgressBet"
    /\ last.pre = "locked"
    /\ LastBet.status = "awaiting_proof"
    /\ LastBet.eventDate = 1
    /\ now = 1

\* C20: checkAndProgressBet on a bet in draft or pending with at least two
\* participants and an event date at or before the current time leaves the
\* bet locked.
C20_CheckLocks ==
    [][(/\ last'.op = "checkAndProgressBet"
        /\ last'.pre \in {"draft", "pending"}
        /\ now' = now
        /\ Len(bets[last'.bet].participants) >= 2
        /\ bets[last'.bet].eventDate <= now)
          => bets'[last'.bet].status = "locked"]_vars

\* C21: every step leaves the entries the ledger already had in place, in
\* the same order and unchanged: the old ledger is a prefix of the new one.
C21_AppendOnly ==
    [][/\ Len(ledger') >= Len(ledger)
       /\ SubSeq(ledger', 1, Len(ledger)) = ledger]_vars

C21_Witness ==
    /\ last.op \in {"resolveBet", "voteOnBet"}
    /\ last.len = 2
    /\ Len(ledger) = 4
    /\ ledger[3].betId = ledger[1].betId
    /\ ledger[3].userId # ledger[1].userId
    /\ ledger[3].amount = ledger[1].amount

\* the positions of the ledger entries of a user
PositionsOf(userId) == {j \in 1..Len(ledger) : ledger[j].userId = userId}

\* the balance of a user over the first k entries, entry by entry
RECURSIVE BalanceUpTo(_, _)
BalanceUpTo(k, userId) ==
    IF k = 0 THEN DZero
    ELSE IF ledger[k].userId = userId
         THEN DAdd(BalanceUpTo(k - 1, userId), ledger[k].amount)
         ELSE BalanceUpTo(k - 1, userId)

\* C22: getUserBalance(u) is the sum, taken in ledger order, of the amounts
\* of exactly the entries whose user id is u, whatever their bet (zero when
\* there is none), and getUserLedger(u) is exactly those entries, in ledger
\* order.
C22_BalanceIsSumOfOwnEntries ==
    /\ \A u \in Users :
          /\ getUserBalance(Store, u) = BalanceUpTo(Len(ledger), u)
          /\ PositionsOf(u) = {} => getUserBalance(Store, u) = DZero
          /\ LET r == getUserLedger(Store, u)
             IN  /\ Len(r) = Cardinality(PositionsOf(u))
                 /\ \A i \in 1..Len(r) :
                       \E j \in PositionsOf(u) :
                           /\ Cardinality({k \in PositionsOf(u) : k <= j}) = i
                           /\ r[i] = ledger[j]
    /\ last.op = "getUserBalance"
          => last.ret = BalanceUpTo(Len(ledger), last.user)
    /\ last.op = "getUserLedger"
          => /\ \A i \in 1..Len(last.ret) : last.ret[i].userId = last.user
             /\ Len(last.ret) = Cardinality(PositionsOf(last.user))

C22_Witness ==
    /\ last.op = "getUserBalance"
    /\ Len(ledger) = 3
    /\ PositionsOf(last.user) = {1, 3}
    /\ ledger[1].betId # ledger[3].betId
    /\ ledger[2].amount = DFromInt(-1)
    /\ last.ret = DAdd(DDivInt(1, 3), DDivInt(1, 3))

\* C23: in every state no two groups have the same invite code, and
\* joinGroup with the code of a group adds a user who is not a member to
\* that group.
C23_InviteCodesUnique ==
    /\ \A g \in 1..Len(groups), h \in 1..Len(groups) :
          groups[g].inviteCode = groups[h].inviteCode => g = h
    /\ \A g \in 1..Len(groups), u \in Bettors :
          ~Includes(groups[g].memberIds, u) =>
              Includes(joinGroup(Store, groups[g].inviteCode, u).groups[g].memberIds, u)

\* C24: acceptBet, lockBet, submitProof, voteOnBet, resolveBet,
\* checkAndProgressBet and updateBetStatus called with a bet id the store
\* does not have leave bets, groups and ledger unchanged, and acceptBet
\* returns null.
C24_UnknownBetNoOp ==
    [][(/\ last'.op \in {"acceptBet", "lockBet", "submitProof", "voteOnBet",
                         "resolveBet", "checkAndProgressBet", "updateBetStatus"}
        /\ last'.bet \notin 1..Len(bets)
        /\ now' = now)
          => /\ bets' = bets
             /\ groups' = groups
             /\ groupMembers' = groupMembers
             /\ ledger' = ledger
             /\ last'.op = "acceptBet" => last'.ret = "null"]_vars

C24_Witness ==
    /\ last.op = "acceptBet"
    /\ last.bet = 2
    /\ last.pre = "none"
    /\ last.ret = "null"
    /\ Len(bets) = 1
    /\ bets[1].status = "draft"
    /\ bets[1].participants = << >>

\* C25: right after handleCreateGroup by a user, the newest group has the
\* user's id as creatorId and as first member, has the typed name, and is
\* among the user's groups (getUserGroups).
C25_DashboardGroupIsMine ==
    last.op = "handleCreateGroup" =>
        LET group == groups[Len(groups)]
        IN  /\ group.creatorId = last.user
            /\ group.memberIds[1] = last.user
            /\ group.name = last.arg
            /\ Includes(getUserGroups(Store, last.user), group)

\* C26: every resolved bet has a winnerSide that is A or B; right after a
\* resolveBet or voteOnBet that resolved a bet, its winnerSide is the side
\* passed and the resolved view names that side.
C26_WinnerSideSet ==
    /\ \A b \in 1..Len(bets) :
          bets[b].status = "resolved" => bets[b].winnerSide \in Sides
    /\ (/\ last.op \in {"resolveBet", "voteOnBet"}
        /\ last.pre \notin {"resolved", "none"}
        /\ LastBet.status = "resolved")
          => /\ LastBet.winnerSide = last.arg
             /\ resolvedViewWinner(LastBet) = last.arg

\* C27: in every state, a bet that is locked, awaiting_proof, voting or
\* resolved has exactly two participants, one on side A and one on side B.
C27_TwoSidedOnceLocked ==
    \A b \in 1..Len(bets) :
        bets[b].status \in {"locked", "awaiting_proof", "voting", "resolved"}
            => /\ Len(bets[b].participants) = 2
               /\ Cardinality(OnSide(bets[b], "A")) = 1
               /\ Cardinality(OnSide(bets[b], "B")) = 1

\* with the guarded operations alone no bet ever leaves draft and pending,
\* and the ledger stays empty
GuardedNeverLocks ==
    /\ \A b \in 1..Len(bets) : bets[b].status \in {"draft", "pending"}
    /\ \A b \in 1..Len(bets) : Len(bets[b].participants) <= 1
    /\ ledger = << >>

\* C28: with acceptBet, checkAndProgressBet, submitProof, voteOnBet and the
\* clock alone, each called again and again, the bet is eventually locked,
\* eventually awaiting_proof, eventually voting, and eventually resolved
\* with a ledger entry for a winner and one for a loser.
C28_LifecycleCompletes ==
    /\ <>(bets[1].status = "locked")
    /\ <>(bets[1].status = "awaiting_proof")
    /\ <>(bets[1].status = "voting")
    /\ <>(/\ bets[1].status = "resolved"
          /\ \E j \in 1..Len(ledger), k \in 1..Len(ledger) :
                /\ ledger[j].betId = 1 /\ ~ledger[j].amount.neg
                /\ ledger[k].betId = 1 /\ ledger[k].amount.neg)

C30_CheckTouchesStatusOnly ==
    /\ [](\A b \in BetIds :
            checkAndProgressBet(checkAndProgressBet(Store, b, now), b, now)
                = checkAndProgressBet(Store, b, now))
    /\ [][(/\ last'.op = "checkAndProgressBet"
           /\ last'.bet \in 1..Len(bets)
           /\ now' = now)
             => LET b == last'.bet
                IN  /\ ledger' = ledger
                    /\ groups' = groups
                    /\ groupMembers' = groupMembers
                    /\ Len(bets') = Len(bets)
                    /\ \A c \in 1..Len(bets) : c # b => bets'[c] = bets[c]
                    /\ bets'[b] = [bets[b] EXCEPT !.status = bets'[b].status]
                    /\ (\/ bets[b].status \in {"pending", "awaiting_proof",
                                                "voting", "resolved"}
                        \/ bets[b].eventDate > now)
                          => bets' = bets]_vars

C30_Witness ==
    /\ last.op = "checkAndProgressBet"
    /\ last.bet = 1
    /\ last.pre = "draft"
    /\ bets[1].status = "awaiting_proof"
    /\ Len(bets[1].participants) = 2
    /\ bets[2].status = "locked"
    /\ bets[2].eventDate <= now

====
